---- MODULE Spec2Model ----
(***************************************************************************)
(* State-machine model of the four standalone scripts of the repository:   *)
(*   infinitePersonImageGen.py   (script "infu": submit job, poll, save)   *)
(*   newPersonImageGen.py        (script "np":   single-prompt client)     *)
(*   stable_diffusion_image_gen.py (script "sd": batch client)             *)
(*   compare_faces.py            (script "cf":   face comparator + CSV)    *)
(* One behaviour runs one script (compare_faces.main may be invoked        *)
(* several times in a row against the same comparisons.csv).               *)
(*                                                                         *)
(* Text is modelled as sequences of one-character strings, bytes as        *)
(* integers 0..255, so that base64 coding, prefix tests, substring tests   *)
(* and split(',') are computed, not assumed.                               *)
(***************************************************************************)
EXTENDS Integers, Sequences, FiniteSets, TLC

VARIABLES
    script,                \* which script this process runs
    pc,                    \* position in the script
    env,                   \* os.environ of the current invocation
    raised,                \* exception propagated out of the entry point ("none" if none)
    out,                   \* reports printed to the operator (progress lines excluded)
    posts,                 \* number of requests.post calls issued
    gets,                  \* number of requests.get calls issued
    result,                \* infu: the JSON object of the POST response (NoBody: none)
    poll_count,            \* infu: poll_count
    in_progress_detected,  \* infu: in_progress_detected
    generation_start_time, \* infu: generation_start_time is set (not None)
    notYet,                \* infu: iterations that ended in the "still waiting" branch
    status_code,           \* infu: HTTP code of the last status answer (0: none yet)
    status_result,         \* infu: body of the status response that ended the loop
    saved,                 \* infu: number of times the output image was written
    idx,                   \* np/sd: number of prompts already processed
    genCalls,              \* np/sd: prompts passed to generate_image, in call order
    response,              \* np/sd: the endpoint's answer to the last POST
    image_bytes,           \* np/sd: value returned by the last generate_image call
    written,               \* np/sd: content of the file written for the last prompt
    nErrors,               \* np/sd: prompts whose failure was caught and logged
    fs,                    \* cf: what the current invocation finds at each image path
    csv,                   \* cf: comparisons.csv
    runs,                  \* cf: invocations of main started so far
    okRows,                \* cf: rows of the invocations that succeeded, in invocation order
    detectCalls,           \* cf: image paths detect_face was called with, in call order
    scoreSteps,            \* cf: number of times the scoring steps ran
    similarity,            \* cf: similarity computed by the current invocation
    file_exists,           \* cf: file_exists as evaluated by the current invocation
    peer                   \* cf: a second invocation of main running at the same time

vars == <<script, pc, env, raised, out, posts, gets, result, poll_count, in_progress_detected,
          generation_start_time, notYet, status_code, status_result, saved, idx, genCalls, response,
          image_bytes, written, nErrors, fs, csv, runs, okRows, detectCalls, scoreSteps,
          similarity, file_exists, peer>>

infuVars == <<result, poll_count, in_progress_detected, generation_start_time, notYet,
              status_code, status_result, saved>>
t2iVars == <<idx, genCalls, response, image_bytes, written, nErrors>>
cfVars == <<fs, csv, runs, okRows, detectCalls, scoreSteps, similarity, file_exists,
            peer>>

-----------------------------------------------------------------------------
(* Bounds of the model *)

\* longest byte sequence the text-to-image stub encodes
MaxBytes == 3
\* number of sequential invocations of compare_faces.main
MaxRuns == 3

-----------------------------------------------------------------------------
(* Text helpers *)

\* Python: prefix.startswith test, s.startswith(p)
StartsWith(s, p) == Len(s) >= Len(p) /\ SubSeq(s, 1, Len(p)) = p

\* Python: p in s  (substring test)
Contains(s, p) ==
    \E i \in 0..(Len(s) - Len(p)) : SubSeq(s, i + 1, i + Len(p)) = p

\* index of the first c in s at or after position i, 0 if none
RECURSIVE Find(_, _, _)
Find(s, c, i) ==
    IF i > Len(s) THEN 0
    ELSE IF s[i] = c THEN i
    ELSE Find(s, c, i + 1)

\* Python: s.split(c)
RECURSIVE Split(_, _)
Split(s, c) ==
    LET k == Find(s, c, 1) IN
    IF k = 0 THEN <<s>>
    ELSE <<SubSeq(s, 1, k - 1)>> \o Split(SubSeq(s, k + 1, Len(s)), c)

UpperCase == <<"A","B","C","D","E","F","G","H","I","J","K","L","M",
               "N","O","P","Q","R","S","T","U","V","W","X","Y","Z">>
LowerCase == <<"a","b","c","d","e","f","g","h","i","j","k","l","m",
               "n","o","p","q","r","s","t","u","v","w","x","y","z">>

\* Python: str.lower(), character by character
LowerChar(c) ==
    IF \E i \in 1..26 : UpperCase[i] = c
    THEN LowerCase[CHOOSE i \in 1..26 : UpperCase[i] = c]
    ELSE c
Lower(s) == [i \in 1..Len(s) |-> LowerChar(s[i])]

-----------------------------------------------------------------------------
(* base64 *)

B64Alphabet == UpperCase \o LowerCase \o
               <<"0","1","2","3","4","5","6","7","8","9","+","/">>

IsB64Char(c) == \E i \in 1..64 : B64Alphabet[i] = c
B64Value(c) == (CHOOSE i \in 1..64 : B64Alphabet[i] = c) - 1
B64Char(v) == B64Alphabet[v + 1]

\* base64.b64encode: three bytes to four characters, "=" padding
RECURSIVE b64encode(_)
b64encode(b) ==
    IF Len(b) = 0 THEN <<>>
    ELSE IF Len(b) = 1 THEN
        <<B64Char(b[1] \div 4), B64Char((b[1] % 4) * 16), "=", "=">>
    ELSE IF Len(b) = 2 THEN
        <<B64Char(b[1] \div 4), B64Char((b[1] % 4) * 16 + (b[2] \div 16)),
          B64Char((b[2] % 16) * 4), "=">>
    ELSE
        <<B64Char(b[1] \div 4), B64Char((b[1] % 4) * 16 + (b[2] \div 16)),
          B64Char((b[2] % 16) * 4 + (b[3] \div 64)), B64Char(b[3] % 64)>>
        \o b64encode(SubSeq(b, 4, Len(b)))

\* binascii.a2b_base64 in its default (non-strict) mode, as base64.b64decode
\* calls it: characters outside the alphabet are skipped, a complete pad
\* sequence ends the input, a dangling partial quad is an error.
RECURSIVE A2B(_, _, _, _, _, _)
A2B(s, i, quad_pos, leftchar, pads, acc) ==
    IF i > Len(s) THEN [ok |-> quad_pos = 0, bytes |-> acc]
    ELSE IF s[i] = "=" THEN
        IF quad_pos >= 2
        THEN IF quad_pos + pads + 1 >= 4
             THEN [ok |-> TRUE, bytes |-> acc]
             ELSE A2B(s, i + 1, quad_pos, leftchar, pads + 1, acc)
        ELSE A2B(s, i + 1, quad_pos, leftchar, pads, acc)
    ELSE IF ~IsB64Char(s[i]) THEN A2B(s, i + 1, quad_pos, leftchar, pads, acc)
    ELSE LET v == B64Value(s[i]) IN
        CASE quad_pos = 0 -> A2B(s, i + 1, 1, v, 0, acc)
          [] quad_pos = 1 ->
                A2B(s, i + 1, 2, v % 16, 0, Append(acc, leftchar * 4 + (v \div 16)))
          [] quad_pos = 2 ->
                A2B(s, i + 1, 3, v % 4, 0, Append(acc, leftchar * 16 + (v \div 4)))
          [] OTHER ->
                A2B(s, i + 1, 0, 0, 0, Append(acc, leftchar * 64 + v))

\* base64.b64decode(s): [ok, bytes]; ok = FALSE stands for binascii.Error
b64decode(s) == A2B(s, 1, 0, 0, 0, <<>>)

-----------------------------------------------------------------------------
(* Exceptions *)

\* an exception that left the entry point: its type, its message and the
\* path the message ends with ("" if none); NoException if none did
Exception(type, msg, arg) == [type |-> type, msg |-> msg, arg |-> arg]
NoException == Exception("none", "", "")
ValueError(msg) == Exception("ValueError", msg, "")

-----------------------------------------------------------------------------
(* Environment *)

\* os.getenv(name) of a variable that is not set (None)
Unset == "<unset>"

\* Python: `not value` for the result of os.getenv: None or the empty string
Missing(v) == v = Unset \/ v = ""

InfuEnvNames == {"RUNPOD_INFU_URL", "RUNPOD_API_KEY", "INFINITE_INPUT_FACE_IMAGE_PATH",
                 "INFINITE_OUTPUT_IMAGE_PATH", "INFINITE_PERSON_PROMPT"}
NpEnvNames == {"HUGGINGFACE_API_KEY", "HUGGINGFACE_ENDPOINT",
               "NEW_PERSON_OUTPUT_IMAGE_PATH", "NEW_PERSON_PROMPT"}
SdEnvNames == {"HUGGINGFACE_API_KEY", "HUGGINGFACE_ENDPOINT"}
CfEnvNames == {"DEFAULT_PERSON_FACE_IMAGE", "INFINITE_PERSON_FACE_IMAGE"}
EnvNames == InfuEnvNames \cup NpEnvNames \cup SdEnvNames \cup CfEnvNames

\* image paths the comparator may be pointed at
Paths == {"a.jpg", "b.jpg"}

\* the values a variable of a script may hold when the script starts: not
\* set, set to the empty string, or set to a value (for the comparator, a path)
EnvValues(names) ==
    IF names = CfEnvNames THEN {Unset, ""} \cup Paths ELSE {Unset, "", "set"}

\* the environments in which a script may be started: its own variables vary,
\* the others are not set
Environments(names) ==
    {[n \in EnvNames |-> IF n \in names THEN f[n] ELSE Unset] :
        f \in [names -> EnvValues(names)]}

-----------------------------------------------------------------------------
(* infinitePersonImageGen.py: payloads of the remote service *)

NoSpaceLeft ==
    <<"N","o"," ","s","p","a","c","e"," ","l","e","f","t"," ","o","n"," ",
      "d","e","v","i","c","e">>
ModelNotFound ==
    <<"M","o","d","e","l"," ","n","o","t"," ","f","o","u","n","d">>
Code403 ==
    <<"4","0","3">>
AccessWord ==
    <<"a","c","c","e","s","s">>
DataImage ==
    <<"d","a","t","a",":","i","m","a","g","e">>
JpegDataUrlPrefix ==
    <<"d","a","t","a",":","i","m","a","g","e","/","j","p","e","g",";","b",
      "a","s","e","6","4",",">>
MsgUnknownError ==
    <<"U","n","k","n","o","w","n"," ","e","r","r","o","r">>
MsgAccessDenied ==
    <<"A","c","c","e","s","s"," ","d","e","n","i","e","d">>
MsgLowerNoSpace ==
    <<"n","o"," ","s","p","a","c","e"," ","l","e","f","t"," ","o","n"," ",
      "d","e","v","i","c","e">>
MsgModelAndSpace ==
    <<"M","o","d","e","l"," ","n","o","t"," ","f","o","u","n","d",";"," ",
      "N","o"," ","s","p","a","c","e"," ","l","e","f","t"," ","o","n"," ",
      "d","e","v","i","c","e">>
MsgForbiddenModel ==
    <<"4","0","3"," ","M","o","d","e","l"," ","n","o","t"," ","f","o","u",
      "n","d">>
MsgOom ==
    <<"C","U","D","A"," ","O","O","M">>
MsgGated ==
    <<"H","T","T","P"," ","4","0","3"," ","g","a","t","e","d">>
\* image_to_base64: the data URL of a file's bytes
image_to_base64(bytes) == JpegDataUrlPrefix \o b64encode(bytes)

\* bytes PIL recognises as an image (a JPEG start-of-image marker), and bytes it does not
SampleImage == <<255, 216, 255>>
NotAnImage == <<0, 1>>
IsImage(bytes) == StartsWith(bytes, <<255, 216, 255>>)

\* the strings a service may put in output.image
ImageStrings ==
    { image_to_base64(SampleImage),            \* data URL of an image
      b64encode(SampleImage),                  \* bare base64 of an image
      image_to_base64(NotAnImage),             \* decodes, but is no image
      DataImage,                               \* "data:image" with no comma
      <<"/","9","j">> }                        \* truncated base64

\* the output object of a response
OutDict(success, hasImage, image) ==
    [isDict |-> TRUE, success |-> success, hasImage |-> hasImage, image |-> image,
     metadataOk |-> TRUE]
OutNonDict == [isDict |-> FALSE, success |-> FALSE, hasImage |-> FALSE, image |-> <<>>,
               metadataOk |-> TRUE]
\* an output whose metadata field is there but is no object (JSON null)
NullMetadataOutput ==
    [OutDict(TRUE, TRUE, b64encode(SampleImage)) EXCEPT !.metadataOk = FALSE]
Outputs ==
    {OutNonDict, OutDict(TRUE, FALSE, <<>>), OutDict(FALSE, FALSE, <<>>)}
    \cup {OutDict(s, TRUE, i) : s \in BOOLEAN, i \in ImageStrings}
    \cup {NullMetadataOutput}

\* an output object that reports success and carries the data URL of an image
SavableOutput == OutDict(TRUE, TRUE, image_to_base64(SampleImage))

\* the error field of a FAILED response: a string, or JSON null
ErrStr(text) == [isStr |-> TRUE, text |-> text]
ErrNull == [isStr |-> FALSE, text |-> <<>>]
ErrorMsgs == {NoSpaceLeft, ModelNotFound, Code403, MsgAccessDenied, MsgLowerNoSpace,
              MsgModelAndSpace, MsgForbiddenModel, MsgOom, MsgGated, MsgUnknownError}

\* a decoded JSON object: status ("<none>" when the key is absent), output, error
Body(status, hasOutput, output, hasError, error) ==
    [status |-> status, hasOutput |-> hasOutput, output |-> output,
     hasError |-> hasError, error |-> error]
NoBody == Body("<none>", FALSE, OutNonDict, FALSE, ErrNull)

WaitingStatuses == {"IN_QUEUE", "IN_PROGRESS"}
\* statuses for which the polling loop goes on: queued, in progress, an
\* unrecognised string, or no status at all
NonTerminalStatuses == WaitingStatuses \cup {"CANCELLED", "<none>"}

StatusBodies ==
    {Body(s, FALSE, OutNonDict, FALSE, ErrNull) : s \in NonTerminalStatuses}
    \cup {Body("COMPLETED", FALSE, OutNonDict, FALSE, ErrNull)}
    \cup {Body("COMPLETED", TRUE, o, FALSE, ErrNull) : o \in Outputs}
    \cup {Body("FAILED", FALSE, OutNonDict, FALSE, ErrNull),
          Body("FAILED", FALSE, OutNonDict, TRUE, ErrNull)}
    \cup {Body("FAILED", FALSE, OutNonDict, TRUE, ErrStr(m)) : m \in ErrorMsgs}
    \cup {Body("FAILED", TRUE, SavableOutput, TRUE, ErrStr(MsgOom))}

PostBodies ==
    {Body(s, FALSE, OutNonDict, FALSE, ErrNull) : s \in WaitingStatuses \cup {"<none>"}}
    \cup {Body(s, TRUE, o, FALSE, ErrNull) : s \in {"<none>", "COMPLETED"}, o \in Outputs}
    \cup {Body("IN_QUEUE", TRUE, SavableOutput, FALSE, ErrNull)}

\* what a request can come to: an exception of the requests library, or an
\* HTTP answer whose body is a JSON object, other JSON, or no JSON at all
HttpCodes == {200, 202, 500}
Answer(exc, code, kind, body) == [exc |-> exc, code |-> code, kind |-> kind, body |-> body]
Answers(bodies) ==
    {Answer(x, 0, "none", NoBody) : x \in {"Timeout", "RequestException"}}
    \cup {Answer("none", c, "text", NoBody) : c \in HttpCodes}
    \cup {Answer("none", 200, "nondict", NoBody)}
    \cup {Answer("none", c, "dict", b) : c \in HttpCodes, b \in bodies}

\* the answers the job endpoint (POST) and the status endpoint (GET) may give
PostAnswers == Answers(PostBodies)
StatusAnswers == Answers(StatusBodies)

-----------------------------------------------------------------------------
(* infinitePersonImageGen.py: test_infiniteyou_api *)

max_polls == 2000

\* configuration checks that let a missing prompt through
InfuConfigCheck_NoPromptCheck(e) ==
    IF Missing(e["RUNPOD_INFU_URL"]) THEN "err_url"
    ELSE IF Missing(e["RUNPOD_API_KEY"]) THEN "err_key"
    ELSE IF Missing(e["INFINITE_INPUT_FACE_IMAGE_PATH"])
        THEN "INFINITE_INPUT_FACE_IMAGE_PATH must be set"
    ELSE IF Missing(e["INFINITE_OUTPUT_IMAGE_PATH"])
        THEN "INFINITE_OUTPUT_IMAGE_PATH must be set"
    ELSE "ok"

\* lines 60-82: the first configuration check that fails, "ok" if none does
InfuConfigCheck(e) ==
    IF Missing(e["RUNPOD_INFU_URL"]) THEN "err_url"
    ELSE IF Missing(e["RUNPOD_API_KEY"]) THEN "err_key"
    ELSE IF Missing(e["INFINITE_INPUT_FACE_IMAGE_PATH"])
        THEN "INFINITE_INPUT_FACE_IMAGE_PATH must be set"
    ELSE IF Missing(e["INFINITE_OUTPUT_IMAGE_PATH"])
        THEN "INFINITE_OUTPUT_IMAGE_PATH must be set"
    ELSE IF Missing(e["INFINITE_PERSON_PROMPT"])
        THEN "INFINITE_PERSON_PROMPT must be set"
    ELSE "ok"

\* a missing API key raising like the later checks
IsRaise_KeyRaises(c) == c \notin {"ok", "err_url"}

\* lines 71, 77, 82: the failed checks that raise ValueError with the check's
\* message (lines 60-66 print and return)
IsRaise(c) == c \notin {"ok", "err_url", "err_key"}

\* lines 49-95, everything before the request: the configuration checks and
\* the test that the input file exists (inputExists is os.path.exists's
\* answer). Creating the output directory and reading an existing input
\* file are taken to succeed.
InfuValidate ==
    /\ script = "infu" /\ pc = "start"
    /\ LET c == InfuConfigCheck(env) IN
       IF c # "ok" THEN
            /\ pc' = "done"
            /\ raised' = IF IsRaise(c) THEN ValueError(c) ELSE NoException
            /\ out' = IF IsRaise(c) THEN out ELSE Append(out, c)
       ELSE \E inputExists \in BOOLEAN :
            IF ~inputExists THEN
                pc' = "done" /\ raised' = NoException
                             /\ out' = Append(out, "err_input_not_found")
            ELSE
                pc' = "ready" /\ raised' = NoException /\ out' = out
    /\ UNCHANGED <<script, env, posts, gets, infuVars, t2iVars, cfVars>>

\* lines 25-34, base64_to_image: strip a data-URL prefix, decode, open as an
\* image, save. ok = FALSE stands for the exception any of these steps raises
\* (IndexError, binascii.Error, UnidentifiedImageError, OSError).
base64_to_image(base64_string, saveOk) ==
    LET prefixed == StartsWith(base64_string, DataImage)
        parts == Split(base64_string, ",")
        stripped == IF prefixed /\ Len(parts) >= 2 THEN parts[2] ELSE base64_string
        image_data == b64decode(stripped)
    IN  [ok |-> /\ (prefixed => Len(parts) >= 2)
                /\ image_data.ok
                /\ IsImage(image_data.bytes)
                /\ saveOk]

\* output handling that saves the image whatever the success field says
HandleOutput_IgnoresSuccess(output, saveOk) ==
    IF ~output.isDict THEN [log |-> <<>>, saves |-> 0, exc |-> TRUE]
    ELSE IF output.hasImage THEN
        IF base64_to_image(output.image, saveOk).ok
        THEN [log |-> <<"api_success", "image_saved", "metadata">>, saves |-> 1,
              exc |-> FALSE]
        ELSE [log |-> <<"api_success">>, saves |-> 0, exc |-> TRUE]
    ELSE IF output.success THEN
        [log |-> <<"api_success", "no_image">>, saves |-> 0, exc |-> FALSE]
    ELSE [log |-> <<"api_error">>, saves |-> 0, exc |-> FALSE]

\* lines 203-226 and 271-292: what is done with an output object (the
\* metadata lines raise on a metadata field that is no object, after the save).
\* log: the reports printed; saves: images written; exc: an exception was raised
HandleOutput(output, saveOk) ==
    IF ~output.isDict THEN [log |-> <<>>, saves |-> 0, exc |-> TRUE]
    ELSE IF output.success THEN
        IF output.hasImage THEN
            IF base64_to_image(output.image, saveOk).ok
            THEN IF output.metadataOk
                 THEN [log |-> <<"api_success", "image_saved", "metadata">>,
                       saves |-> 1, exc |-> FALSE]
                 ELSE [log |-> <<"api_success", "image_saved">>, saves |-> 1,
                       exc |-> TRUE]
            ELSE [log |-> <<"api_success">>, saves |-> 0, exc |-> TRUE]
        ELSE [log |-> <<"api_success", "no_image">>, saves |-> 0, exc |-> FALSE]
    ELSE [log |-> <<"api_error">>, saves |-> 0, exc |-> FALSE]

\* lines 300-305: the report of the handler that catches an exception
ExcReport(exc) ==
    CASE exc = "Timeout" -> "request_timed_out"
      [] exc = "RequestException" -> "request_failed"
      [] OTHER -> "unexpected_error"

\* response.json() on a body that is no JSON raises an exception that is a
\* RequestException in some versions of requests and a plain ValueError in others
JsonErrorReports == {"request_failed", "unexpected_error"}

\* an immediate response whose output is looked at before its status
PostBranch_OutputFirst(body) ==
    IF body.hasOutput THEN "output"
    ELSE IF body.status \in {"IN_QUEUE", "IN_PROGRESS"} THEN "poll"
    ELSE "unexpected_format"

\* lines 161, 271, 293: which branch the immediate response takes
PostBranch(body) ==
    IF body.status \in {"IN_QUEUE", "IN_PROGRESS"} THEN "poll"
    ELSE IF body.hasOutput THEN "output"
    ELSE "unexpected_format"

\* lines 143-171 and 270-305: the POST and the handling of its response
InfuPost ==
    /\ script = "infu" /\ pc = "ready"
    /\ posts' = posts + 1
    /\ \E r \in PostAnswers, saveOk \in BOOLEAN, jsonReport \in JsonErrorReports :
        /\ result' = IF r.exc = "none" /\ r.code = 200 /\ r.kind = "dict"
                      THEN r.body ELSE result
        /\ IF r.exc # "none" THEN
               pc' = "done" /\ out' = Append(out, ExcReport(r.exc)) /\ saved' = saved
           ELSE IF r.code # 200 THEN
               pc' = "done" /\ out' = Append(out, "http_error") /\ saved' = saved
           ELSE IF r.kind = "text" THEN
               pc' = "done" /\ out' = Append(out, jsonReport) /\ saved' = saved
           ELSE IF r.kind = "nondict" THEN
               pc' = "done" /\ out' = Append(out, "unexpected_error") /\ saved' = saved
           ELSE IF PostBranch(r.body) = "poll" THEN
               pc' = "polling" /\ out' = Append(out, "polling_started") /\ saved' = saved
           ELSE IF PostBranch(r.body) = "output" THEN
               LET h == HandleOutput(r.body.output, saveOk) IN
               /\ pc' = "done"
               /\ out' = out \o h.log \o (IF h.exc THEN <<"unexpected_error">> ELSE <<>>)
               /\ saved' = saved + h.saves
           ELSE
               pc' = "done" /\ out' = Append(out, "unexpected_format") /\ saved' = saved
    /\ UNCHANGED <<script, env, raised, gets, poll_count, in_progress_detected,
                   generation_start_time, notYet, status_code, status_result, t2iVars,
                   cfVars>>

\* the rules with "Model not found" tested first
Hints_ModelFirst(error_msg) ==
    IF Contains(error_msg, ModelNotFound) THEN <<"hint_model">>
    ELSE IF Contains(error_msg, NoSpaceLeft) THEN <<"hint_storage">>
    ELSE IF Contains(error_msg, Code403) \/ Contains(Lower(error_msg), AccessWord)
        THEN <<"hint_access">>
    ELSE <<>>

\* lines 238-243: the remediation hints printed for a FAILED job's error string
Hints(error_msg) ==
    IF Contains(error_msg, NoSpaceLeft) THEN <<"hint_storage">>
    ELSE IF Contains(error_msg, ModelNotFound) THEN <<"hint_model">>
    ELSE IF Contains(error_msg, Code403) \/ Contains(Lower(error_msg), AccessWord)
        THEN <<"hint_access">>
    ELSE <<>>

\* a loop that lets one more poll through
LoopCondition_OffByOne == poll_count <= max_polls

\* line 173: the loop condition
LoopCondition == poll_count < max_polls

\* lines 174-182: sleep, count the poll, issue the status GET
PollGet ==
    /\ script = "infu" /\ pc = "polling" /\ LoopCondition
    /\ poll_count' = poll_count + 1
    /\ gets' = gets + 1

\* lines 189-192: generation time is tracked from the first IN_PROGRESS
Track(current_status) ==
    IF current_status = "IN_PROGRESS" /\ ~in_progress_detected
    THEN generation_start_time' = TRUE /\ in_progress_detected' = TRUE
    ELSE UNCHANGED <<generation_start_time, in_progress_detected>>

\* a test that takes only the error codes for failures
BadStatusCode_ErrorsOnly(r) == r.code >= 400

\* lines 184, 254-257: whether a status answer ends the loop for its HTTP code
BadStatusCode(r) == r.code # 200

\* a status GET that raises, or whose 200 answer is not a JSON object: the
\* report of lines 300-305 and the HTTP code received (0: no answer)
PollExceptions ==
    {[report |-> ExcReport(r.exc), code |-> 0] :
        r \in {a \in StatusAnswers : a.exc # "none"}}
    \cup {[report |-> j, code |-> r.code] :
            j \in JsonErrorReports,
            r \in {a \in StatusAnswers :
                    a.exc = "none" /\ ~BadStatusCode(a) /\ a.kind = "text"}}
    \cup {[report |-> "unexpected_error", code |-> r.code] :
            r \in {a \in StatusAnswers :
                    a.exc = "none" /\ ~BadStatusCode(a) /\ a.kind = "nondict"}}

\* the exception leaves the loop and is reported by lines 300-305
PollException ==
    /\ PollGet
    /\ \E x \in PollExceptions :
        /\ out' = Append(out, x.report)
        /\ status_code' = IF x.code = 0 THEN status_code ELSE x.code
    /\ pc' = "done"
    /\ UNCHANGED <<script, env, raised, posts, result, in_progress_detected,
                   generation_start_time, notYet, status_result, saved, t2iVars, cfVars>>

\* the HTTP codes of the answers that fail the test of line 184
BadCodes == {r.code : r \in {a \in StatusAnswers : a.exc = "none" /\ BadStatusCode(a)}}

\* lines 254-257: a status answer with another HTTP code ends the loop
PollHttpError ==
    /\ PollGet
    /\ \E code \in BadCodes : status_code' = code
    /\ out' = Append(out, "status_check_failed")
    /\ pc' = "done"
    /\ UNCHANGED <<script, env, raised, posts, result, in_progress_detected,
                   generation_start_time, notYet, status_result, saved, t2iVars, cfVars>>

\* lines 194, 229, 247: the branch a decoded status takes
StatusBranch(current_status) ==
    IF current_status = "COMPLETED" THEN "completed"
    ELSE IF current_status = "FAILED" THEN "failed"
    ELSE "not_yet"

\* the answers that pass the HTTP code test with a JSON object whose status
\* takes the branch
BranchAnswers(branch) ==
    {a \in StatusAnswers :
        /\ a.exc = "none" /\ ~BadStatusCode(a) /\ a.kind = "dict"
        /\ StatusBranch(a.body.status) = branch}
CompletedAnswers == BranchAnswers("completed")
FailedAnswers == BranchAnswers("failed")
NotYetAnswers == BranchAnswers("not_yet")

\* a COMPLETED branch without its break
CompletedBreaks_Missing == FALSE

\* line 227: the COMPLETED branch ends with break
CompletedBreaks == TRUE

\* lines 202-226: what the COMPLETED branch does with each answer; saveOk is
\* whether the image file can be written
CompletedOutcomes ==
    {[code |-> r.code, body |-> r.body,
      h |-> IF r.body.hasOutput THEN HandleOutput(r.body.output, saveOk)
            ELSE [log |-> <<"no_output">>, saves |-> 0, exc |-> FALSE]] :
        r \in CompletedAnswers, saveOk \in BOOLEAN}

\* lines 194-227: COMPLETED
PollCompleted ==
    /\ PollGet
    /\ \E o \in CompletedOutcomes :
        /\ status_code' = o.code
        /\ status_result' = o.body
        /\ Track(o.body.status)
        /\ out' = Append(out, IF generation_start_time' THEN "completed_generation"
                              ELSE "completed_queue")
                  \o o.h.log \o (IF o.h.exc THEN <<"unexpected_error">> ELSE <<>>)
        /\ saved' = saved + o.h.saves
        /\ pc' = IF o.h.exc \/ CompletedBreaks THEN "done" ELSE "polling"
    /\ UNCHANGED <<script, env, raised, posts, result, notYet, t2iVars, cfVars>>

\* line 230: error_msg = status_result.get('error', 'Unknown error')
ErrorMsgOf(body) == IF body.hasError THEN body.error ELSE ErrStr(MsgUnknownError)

\* lines 237-243: what follows the failure report for each answer: the hints
\* of a string, or the TypeError of the substring test on a value that is
\* none, reported by line 305
FailedOutcomes ==
    {[code |-> r.code, body |-> r.body,
      tail |-> IF ErrorMsgOf(r.body).isStr THEN Hints(ErrorMsgOf(r.body).text)
               ELSE <<"unexpected_error">>] :
        r \in FailedAnswers}

\* lines 229-245: FAILED
PollFailed ==
    /\ PollGet
    /\ \E o \in FailedOutcomes :
        /\ status_code' = o.code
        /\ status_result' = o.body
        /\ Track(o.body.status)
        /\ out' = Append(out, IF generation_start_time' THEN "failed_generation"
                              ELSE "failed") \o o.tail
    /\ pc' = "done"
    /\ UNCHANGED <<script, env, raised, posts, result, notYet, saved, t2iVars, cfVars>>

\* lines 247-253: any other status; the loop goes on. The body is read by
\* this iteration's progress line only and replaced by the next poll's, so
\* it is not kept.
PollNotYet ==
    /\ PollGet
    /\ \E r \in NotYetAnswers :
        /\ status_code' = r.code
        /\ Track(r.body.status)
    /\ notYet' = notYet + 1
    /\ UNCHANGED <<script, pc, env, raised, out, posts, result, status_result, saved, t2iVars,
                   cfVars>>

\* lines 258-268: the else clause of the while loop
PollTimeout ==
    /\ script = "infu" /\ pc = "polling" /\ ~LoopCondition
    /\ out' = Append(out, IF generation_start_time THEN "timeout_generation" ELSE "timeout")
    /\ pc' = "done"
    /\ UNCHANGED <<script, env, raised, posts, gets, infuVars, t2iVars, cfVars>>

InfuNext ==
    \/ InfuValidate
    \/ InfuPost
    \/ PollException
    \/ PollHttpError
    \/ PollCompleted
    \/ PollFailed
    \/ PollNotYet
    \/ PollTimeout

-----------------------------------------------------------------------------
(* newPersonImageGen.py and stable_diffusion_image_gen.py *)

\* byte values the stub encodes, chosen to exercise every sextet position
ByteVals == {77, 202}

RECURSIVE SeqsUpTo(_, _)
SeqsUpTo(S, n) ==
    IF n = 0 THEN {<<>>}
    ELSE LET shorter == SeqsUpTo(S, n - 1) IN
         shorter \cup {Append(q, x) : q \in {t \in shorter : Len(t) = n - 1}, x \in S}

\* the raw images B of the stub
ByteSeqs == SeqsUpTo(ByteVals, MaxBytes)

PngDataUrlPrefix ==
    <<"d","a","t","a",":","i","m","a","g","e","/","p","n","g",";","b","a",
      "s","e","6","4",",">>
\* "data:...;base64," + b64(B)
DataUrl(B) == PngDataUrlPrefix \o b64encode(B)

\* texts that are no data URL of any B: bare base64, a truncated quad, a
\* comma with nothing decodable after it
OtherTexts == {b64encode(<<77, 0>>), <<"T">>, <<"T", "Q", ",", "T">>}

\* the answer of the text-to-image endpoint: an exception of requests.post, or
\* an HTTP code and a body: "text" (not JSON), "string" (a JSON string),
\* "dict_image" (a JSON object with an image field holding a string),
\* "dict_other" (a JSON object without one), "other" (any other JSON)
T2iAnswer(exc, code, kind, text) == [exc |-> exc, code |-> code, kind |-> kind, text |-> text]
T2iAnswers ==
    {T2iAnswer("ConnectionError", 0, "none", <<>>)}
    \cup {T2iAnswer("none", 503, "text", <<>>)}
    \cup {T2iAnswer("none", 200, k, <<>>) : k \in {"text", "dict_other", "other"}}
    \cup {T2iAnswer("none", 200, k, DataUrl(B)) : k \in {"string", "dict_image"}, B \in ByteSeqs}
    \cup {T2iAnswer("none", 200, k, t) : k \in {"string", "dict_image"}, t \in OtherTexts}

\* a Python value handed around by main: bytes, something that is not bytes,
\* or nothing
Bytes(b) == [kind |-> "bytes", val |-> b]
NotBytes == [kind |-> "object", val |-> <<>>]
Nothing == [kind |-> "none", val |-> <<>>]

\* decoding without cutting the prefix off
DecodeText_NoStrip(image_data) == b64decode(image_data)

\* lines 33-37 of generate_image: a string is cut at its commas, the second
\* part kept, and base64-decoded
DecodeText(image_data) ==
    LET data == IF Find(image_data, ",", 1) # 0 THEN Split(image_data, ",")[2]
                ELSE image_data
    IN b64decode(data)

\* generate_image (the same code in both files): [exc, ret]; exc = TRUE
\* stands for the exception raised by requests.post, raise_for_status,
\* response.json or b64decode
generate_image(r) ==
    IF r.exc # "none" \/ r.code >= 400 \/ r.kind = "text"
        THEN [exc |-> TRUE, ret |-> Nothing]
    ELSE IF r.kind \in {"string", "dict_image"} THEN
        LET d == DecodeText(r.text) IN
        IF d.ok THEN [exc |-> FALSE, ret |-> Bytes(d.bytes)]
        ELSE [exc |-> TRUE, ret |-> Nothing]
    ELSE [exc |-> FALSE, ret |-> NotBytes]

SdPrompts ==
    << "A street sign that says 'STOP' in bold letters",
       "A billboard displaying 'Welcome to the City' with text",
       "A book cover with title 'Machine Learning' written on it",
       "A blackboard with '2 + 2 = 4' written in chalk",
       "A menu board showing 'Coffee $3.50' in large text",
       "A license plate with 'ABC123' on it",
       "A neon sign glowing 'OPEN' in red letters",
       "A newspaper headline 'BREAKING NEWS' in bold",
       "A price tag showing '$99.99' clearly visible",
       "A street name sign 'MAIN STREET' on a pole" >>

NpDefaultPrompt == "A crowd of people with three happy people and one sad person "

\* the list main iterates over
Prompts ==
    IF script = "sd" THEN SdPrompts
    ELSE <<IF env["NEW_PERSON_PROMPT"] = Unset THEN NpDefaultPrompt
           ELSE env["NEW_PERSON_PROMPT"]>>

\* the configuration checks of the two mains: the message of the ValueError
\* raised, or "ok"
SdConfigCheck(e) ==
    IF Missing(e["HUGGINGFACE_API_KEY"]) \/ Missing(e["HUGGINGFACE_ENDPOINT"])
    THEN "HUGGINGFACE_API_KEY and HUGGINGFACE_ENDPOINT must be set"
    ELSE "ok"

NpConfigCheck(e) ==
    IF Missing(e["HUGGINGFACE_API_KEY"]) \/ Missing(e["HUGGINGFACE_ENDPOINT"])
    THEN "HUGGINGFACE_API_KEY and HUGGINGFACE_ENDPOINT must be set"
    ELSE IF Missing(e["NEW_PERSON_OUTPUT_IMAGE_PATH"])
    THEN "NEW_PERSON_OUTPUT_IMAGE_PATH must be set"
    ELSE "ok"

\* the start of main up to the loop; creating the output directory is taken
\* to succeed
T2iValidate(name, check) ==
    /\ script = name /\ pc = "start"
    /\ IF check # "ok" THEN pc' = "done" /\ raised' = ValueError(check)
       ELSE pc' = "loop" /\ raised' = NoException
    /\ UNCHANGED <<script, env, out, posts, gets, infuVars, t2iVars, cfVars>>

SdValidate == T2iValidate("sd", SdConfigCheck(env))
NpValidate == T2iValidate("np", NpConfigCheck(env))

\* a loop that gives up after the first failed prompt
MorePrompts_StopAfterError == idx < Len(Prompts) /\ nErrors = 0

\* whether the loop has a next prompt
MorePrompts == idx < Len(Prompts)

\* what generate_image makes of each answer
GenerateOutcomes == {[response |-> r, g |-> generate_image(r)] : r \in T2iAnswers}

\* one iteration of the loop: generate_image, then the file write, inside
\* try/except Exception. openOk is the answer of open(filepath, 'wb'), which
\* creates or truncates the file before anything is written.
T2iIteration(name) ==
    /\ script = name /\ pc = "loop" /\ MorePrompts
    /\ idx' = idx + 1
    /\ genCalls' = Append(genCalls, Prompts[idx + 1])
    /\ posts' = posts + 1
    /\ \E o \in GenerateOutcomes :
        /\ response' = o.response
        /\ image_bytes' = o.g.ret
        /\ IF o.g.exc THEN written' = Nothing /\ nErrors' = nErrors + 1
           ELSE \E openOk \in BOOLEAN :
                IF ~openOk THEN written' = Nothing /\ nErrors' = nErrors + 1
                ELSE IF o.g.ret.kind # "bytes"
                    THEN written' = Bytes(<<>>) /\ nErrors' = nErrors + 1
                ELSE written' = o.g.ret /\ nErrors' = nErrors
    /\ UNCHANGED <<script, pc, env, raised, out, gets, infuVars, cfVars>>

SdIteration == T2iIteration("sd")
NpIteration == T2iIteration("np")

\* the loop is exhausted: the closing report, and main returns
T2iReturn ==
    /\ script \in {"sd", "np"} /\ pc = "loop" /\ ~MorePrompts
    /\ pc' = "done"
    /\ out' = Append(out, "done")
    /\ UNCHANGED <<script, env, raised, posts, gets, infuVars, t2iVars, cfVars>>

T2iNext ==
    \/ SdValidate
    \/ NpValidate
    \/ SdIteration
    \/ NpIteration
    \/ T2iReturn

-----------------------------------------------------------------------------
(* compare_faces.py *)

\* what is found at an image path: nothing, a file cv2.imread cannot load, or
\* an image in which the cascade detector finds no, one or several faces
FileKinds == {"missing", "unreadable", "noface", "oneface", "manyfaces"}

\* lines 15-43, detect_face: the message of the ValueError raised, "" if a
\* face region is returned
detect_face(kind) ==
    IF kind = "unreadable" THEN "Could not load image: "
    ELSE IF kind = "noface" THEN "No face detected in image: "
    ELSE ""

\* the second image detected first
DetectionOrder_Swapped(img1_path, img2_path) == <<img2_path, img1_path>>

\* lines 50-51: the order in which the two images go through detect_face
DetectionOrder(img1_path, img2_path) == <<img1_path, img2_path>>

\* lines 46-78, compute_face_similarity. calls: the paths detect_face ran on;
\* scored: the scoring steps (lines 54-74) ran; exc: the exception raised
compute_face_similarity(img1_path, img2_path, files) ==
    LET order == DetectionOrder(img1_path, img2_path)
        e1 == detect_face(files[order[1]])
        e2 == detect_face(files[order[2]])
    IN  IF e1 # "" THEN
            [calls |-> <<order[1]>>, scored |-> FALSE,
             exc |-> Exception("ValueError", "Error comparing faces: " \o e1, order[1])]
        ELSE IF e2 # "" THEN
            [calls |-> order, scored |-> FALSE,
             exc |-> Exception("ValueError", "Error comparing faces: " \o e2, order[2])]
        ELSE [calls |-> order, scored |-> TRUE, exc |-> NoException]

\* the scores the scoring steps may produce (a float, written as its repr):
\* an image compared with itself correlates fully; two images give any score
Scores(img1_path, img2_path) ==
    IF img1_path = img2_path THEN {"1.0"} ELSE {"0.7312504", "-0.0000004"}

\* line 119, f"{similarity:.6f}"
Format6(sim) ==
    CASE sim = "1.0" -> "1.000000"
      [] sim = "0.7312504" -> "0.731250"
      [] sim = "-0.0000004" -> "-0.000000"

\* lines 84-96: the exception the checks of main raise, NoException if none
CfConfigCheck(e, files) ==
    IF Missing(e["DEFAULT_PERSON_FACE_IMAGE"])
        THEN ValueError("DEFAULT_PERSON_FACE_IMAGE environment variable must be set")
    ELSE IF Missing(e["INFINITE_PERSON_FACE_IMAGE"])
        THEN ValueError("INFINITE_PERSON_FACE_IMAGE environment variable must be set")
    ELSE IF files[e["DEFAULT_PERSON_FACE_IMAGE"]] = "missing"
        THEN Exception("FileNotFoundError", "Image not found: ",
                       e["DEFAULT_PERSON_FACE_IMAGE"])
    ELSE IF files[e["INFINITE_PERSON_FACE_IMAGE"]] = "missing"
        THEN Exception("FileNotFoundError", "Image not found: ",
                       e["INFINITE_PERSON_FACE_IMAGE"])
    ELSE NoException

\* lines 84-105 of main: the checks and the comparison
CfCompare ==
    /\ script = "cf" /\ pc = "start"
    /\ LET c == CfConfigCheck(env, fs) IN
       IF c # NoException THEN
            /\ pc' = "done" /\ raised' = c
            /\ UNCHANGED <<detectCalls, scoreSteps, similarity>>
       ELSE LET default_image_path == env["DEFAULT_PERSON_FACE_IMAGE"]
                infinite_image_path == env["INFINITE_PERSON_FACE_IMAGE"]
                r == compute_face_similarity(default_image_path, infinite_image_path, fs)
            IN  /\ detectCalls' = r.calls
                /\ raised' = r.exc
                /\ IF r.scored
                   THEN /\ scoreSteps' = scoreSteps + 1
                        /\ similarity' \in Scores(default_image_path, infinite_image_path)
                        /\ pc' = "computed"
                   ELSE /\ UNCHANGED <<scoreSteps, similarity>>
                        /\ pc' = "done"
    /\ UNCHANGED <<script, env, out, posts, gets, infuVars, t2iVars, fs, csv, runs, okRows,
                   file_exists, peer>>

\* comparisons.csv: absent, or its lines (each a list of fields)
Absent == [exists |-> FALSE, lines |-> <<>>]
File(lines) == [exists |-> TRUE, lines |-> lines]

Header == <<"DEFAULT_PERSON_FACE_IMAGE", "INFINITE_PERSON_FACE_IMAGE", "Face_ID_Similarity">>

\* lines 108-109: file_exists = csv_path.exists()
CfCheckExists ==
    /\ script = "cf" /\ pc = "computed"
    /\ file_exists' = csv.exists
    /\ pc' = "checked"
    /\ UNCHANGED <<script, env, raised, out, posts, gets, infuVars, t2iVars, fs, csv, runs,
                   okRows, detectCalls, scoreSteps, similarity, peer>>

\* a header written by every invocation
WritesHeader_Always(exists) == TRUE

\* lines 115-116: whether the header row is written
WritesHeader(exists) == ~exists

\* a header test that looks at the file again when it writes
HeaderTestValue_Recheck(stored, file) == file.exists

\* line 115: the header test reads the value line 109 stored before the file
\* was opened, whatever the file has become since
HeaderTestValue(stored, file) == stored

\* lines 111-119: the lines the with-block appends
Appended(exists, row) == (IF WritesHeader(exists) THEN <<Header>> ELSE <<>>) \o <<row>>

\* lines 111-121: open in append mode, write, close, with no other process
\* touching the file in between
CfAppend ==
    /\ script = "cf" /\ pc = "checked" /\ peer.pc = "none"
    /\ LET row == <<env["DEFAULT_PERSON_FACE_IMAGE"], env["INFINITE_PERSON_FACE_IMAGE"],
                    Format6(similarity)>>
       IN /\ csv' = File(csv.lines \o Appended(HeaderTestValue(file_exists, csv), row))
          /\ okRows' = Append(okRows, row)
    /\ out' = Append(out, "results_saved")
    /\ pc' = "done"
    /\ UNCHANGED <<script, env, raised, posts, gets, infuVars, t2iVars, fs, runs,
                   detectCalls, scoreSteps, similarity, file_exists, peer>>

\* what the files at the image paths are when no invocation is running
NoFiles == [p \in Paths |-> "missing"]
NoEnv == [n \in EnvNames |-> Unset]

\* the process of an invocation ends: its environment, its variables and
\* whatever it raised or printed go with it; comparisons.csv stays
CfExit ==
    /\ script = "cf" /\ pc = "done"
    /\ pc' = "exited"
    /\ env' = NoEnv
    /\ fs' = NoFiles
    /\ raised' = NoException
    /\ out' = <<>>
    /\ detectCalls' = <<>>
    /\ scoreSteps' = 0
    /\ similarity' = ""
    /\ file_exists' = FALSE
    /\ UNCHANGED <<script, posts, gets, infuVars, t2iVars, csv, runs, okRows, peer>>

\* the operator runs the script again, once the previous invocation has
\* ended: a new process with its own environment, finding the image files
\* of the day
CfInvokeAgain ==
    /\ script = "cf" /\ pc = "exited" /\ runs < MaxRuns
    /\ runs' = runs + 1
    /\ env' \in Environments(CfEnvNames)
    /\ fs' \in [Paths -> FileKinds]
    /\ pc' = "start"
    /\ UNCHANGED <<script, raised, out, posts, gets, infuVars, t2iVars, csv, okRows,
                   detectCalls, scoreSteps, similarity, file_exists, peer>>

CfNext ==
    \/ CfCompare
    \/ CfCheckExists
    \/ CfAppend
    \/ CfExit
    \/ CfInvokeAgain

\* line 111 when another process may run in between: opening in append mode
\* creates the file if it is not there, empty
CfOpen ==
    /\ script = "cf" /\ pc = "checked" /\ peer.pc # "none"
    /\ csv' = File(csv.lines)
    /\ pc' = "opened"
    /\ UNCHANGED <<script, env, raised, out, posts, gets, infuVars, t2iVars, fs, runs,
                   okRows, detectCalls, scoreSteps, similarity, file_exists, peer>>

\* lines 114-121 when another process may run in between: the rows go to the
\* file object's buffer and reach the end of the file when the with-block
\* closes it
CfWriteClose ==
    /\ script = "cf" /\ pc = "opened"
    /\ LET row == <<env["DEFAULT_PERSON_FACE_IMAGE"], env["INFINITE_PERSON_FACE_IMAGE"],
                    Format6(similarity)>>
       IN /\ csv' = File(csv.lines \o Appended(HeaderTestValue(file_exists, csv), row))
          /\ okRows' = Append(okRows, row)
    /\ out' = Append(out, "results_saved")
    /\ pc' = "done"
    /\ UNCHANGED <<script, env, raised, posts, gets, infuVars, t2iVars, fs, runs,
                   detectCalls, scoreSteps, similarity, file_exists, peer>>

\* the second invocation: no such process, or its position in main, the
\* file_exists it evaluated and the row it computed
NoPeer == [pc |-> "none", file_exists |-> FALSE, row |-> <<>>]

\* lines 84-105 of main in the second invocation, which has an environment of
\* its own and finds the same files
PeerCompare ==
    /\ script = "cf" /\ peer.pc = "start"
    /\ \E e \in Environments(CfEnvNames) :
        IF CfConfigCheck(e, fs) # NoException THEN
            peer' = [peer EXCEPT !.pc = "done"]
        ELSE LET default_image_path == e["DEFAULT_PERSON_FACE_IMAGE"]
                 infinite_image_path == e["INFINITE_PERSON_FACE_IMAGE"]
                 r == compute_face_similarity(default_image_path, infinite_image_path, fs)
             IN  IF r.scored THEN
                     \E sim \in Scores(default_image_path, infinite_image_path) :
                         peer' = [peer EXCEPT !.pc = "computed",
                                              !.row = <<default_image_path,
                                                        infinite_image_path, Format6(sim)>>]
                 ELSE peer' = [peer EXCEPT !.pc = "done"]
    /\ UNCHANGED <<script, pc, env, raised, out, posts, gets, infuVars, t2iVars, fs, csv, runs,
                   okRows, detectCalls, scoreSteps, similarity, file_exists>>

\* lines 108-109 in the second invocation
PeerCheckExists ==
    /\ script = "cf" /\ peer.pc = "computed"
    /\ peer' = [peer EXCEPT !.pc = "checked", !.file_exists = csv.exists]
    /\ UNCHANGED <<script, pc, env, raised, out, posts, gets, infuVars, t2iVars, fs, csv, runs,
                   okRows, detectCalls, scoreSteps, similarity, file_exists>>

\* line 111 in the second invocation
PeerOpen ==
    /\ script = "cf" /\ peer.pc = "checked"
    /\ csv' = File(csv.lines)
    /\ peer' = [peer EXCEPT !.pc = "opened"]
    /\ UNCHANGED <<script, pc, env, raised, out, posts, gets, infuVars, t2iVars, fs, runs,
                   okRows, detectCalls, scoreSteps, similarity, file_exists>>

\* lines 114-121 in the second invocation
PeerWriteClose ==
    /\ script = "cf" /\ peer.pc = "opened"
    /\ csv' = File(csv.lines \o Appended(HeaderTestValue(peer.file_exists, csv), peer.row))
    /\ okRows' = Append(okRows, peer.row)
    /\ peer' = [peer EXCEPT !.pc = "appended"]
    /\ UNCHANGED <<script, pc, env, raised, out, posts, gets, infuVars, t2iVars, fs, runs,
                   detectCalls, scoreSteps, similarity, file_exists>>

\* two invocations of main side by side: the steps of either, in any order
CfConcurrentNext ==
    \/ CfCompare
    \/ CfCheckExists
    \/ CfOpen
    \/ CfWriteClose
    \/ PeerCompare
    \/ PeerCheckExists
    \/ PeerOpen
    \/ PeerWriteClose

-----------------------------------------------------------------------------
(* The process *)

Scripts == {"infu", "np", "sd", "cf"}

ScriptEnvNames(s) ==
    CASE s = "infu" -> InfuEnvNames
      [] s = "np" -> NpEnvNames
      [] s = "sd" -> SdEnvNames
      [] s = "cf" -> CfEnvNames

Init ==
    /\ script \in Scripts
    /\ pc = "start"
    /\ env \in Environments(ScriptEnvNames(script))
    /\ raised = NoException
    /\ out = <<>>
    /\ posts = 0
    /\ gets = 0
    /\ result = NoBody
    /\ poll_count = 0
    /\ in_progress_detected = FALSE
    /\ generation_start_time = FALSE
    /\ notYet = 0
    /\ status_code = 0
    /\ status_result = NoBody
    /\ saved = 0
    /\ idx = 0
    /\ genCalls = <<>>
    /\ response = T2iAnswer("none", 0, "none", <<>>)
    /\ image_bytes = Nothing
    /\ written = Nothing
    /\ nErrors = 0
    /\ fs \in IF script = "cf" THEN [Paths -> FileKinds] ELSE {NoFiles}
    /\ csv = Absent
    /\ runs = 1
    /\ okRows = <<>>
    /\ detectCalls = <<>>
    /\ scoreSteps = 0
    /\ similarity = ""
    /\ file_exists = FALSE
    /\ peer = NoPeer

Next ==
    \/ InfuNext
    \/ T2iNext
    \/ CfNext

Spec == Init /\ [][Next]_vars

\* two invocations of compare_faces.main started together against an absent
\* comparisons.csv
InitConcurrent ==
    /\ script = "cf"
    /\ pc = "start"
    /\ env \in Environments(CfEnvNames)
    /\ raised = NoException
    /\ out = <<>>
    /\ posts = 0
    /\ gets = 0
    /\ result = NoBody
    /\ poll_count = 0
    /\ in_progress_detected = FALSE
    /\ generation_start_time = FALSE
    /\ notYet = 0
    /\ status_code = 0
    /\ status_result = NoBody
    /\ saved = 0
    /\ idx = 0
    /\ genCalls = <<>>
    /\ response = T2iAnswer("none", 0, "none", <<>>)
    /\ image_bytes = Nothing
    /\ written = Nothing
    /\ nErrors = 0
    /\ fs \in [Paths -> FileKinds]
    /\ csv = Absent
    /\ runs = 2
    /\ okRows = <<>>
    /\ detectCalls = <<>>
    /\ scoreSteps = 0
    /\ similarity = ""
    /\ file_exists = FALSE
    /\ peer = [NoPeer EXCEPT !.pc = "start"]

SpecConcurrent == InitConcurrent /\ [][CfConcurrentNext]_vars

\* the operator has been shown the report
Reported(tag) == \E i \in 1..Len(out) : out[i] = tag

-----------------------------------------------------------------------------
(* Properties of the face-personalization client's polling loop *)

\* the loop reached the COMPLETED branch (lines 194-227)
CompletedReached == Reported("completed_queue") \/ Reported("completed_generation")

\* the loop reached the FAILED branch (lines 229-245)
FailedReached == Reported("failed") \/ Reported("failed_generation")

\* the while-else branch ran (lines 258-268)
TimeoutReported == Reported("timeout") \/ Reported("timeout_generation")

\* the strings of an image field that base64-decode to an image
ImagesThatDecode == {i \in ImageStrings : base64_to_image(i, TRUE).ok}

\* a payload whose output object reports success and carries an image field
\* that base64-decodes to an image
GoodPayload(body) ==
    /\ body.hasOutput /\ body.output.isDict /\ body.output.success
    /\ body.output.hasImage
    /\ body.output.image \in ImagesThatDecode

\* C1, as stated: when COMPLETED arrives on poll k+1 after k polls with a
\* non-terminal status, the client has made exactly k "not yet" iterations and
\* k+1 status GETs, the loop is over, no further GET can be issued, and the
\* output image has been saved.
C1_SavesOnEveryCompleted ==
    (script = "infu" /\ CompletedReached) =>
        /\ notYet < max_polls
        /\ gets = notYet + 1
        /\ poll_count = gets
        /\ pc = "done" /\ ~ENABLED PollGet
        /\ saved = 1

\* C1, amended: the counts and the end of the loop are as stated; the image is
\* saved (once) exactly when the COMPLETED payload's output object has a truthy
\* success field and an image field that decodes to an image, and decoding
\* and writing it raised no error. Otherwise nothing is saved.
C1_CompletedAfterKNotYet ==
    (script = "infu" /\ CompletedReached) =>
        /\ notYet < max_polls
        /\ gets = notYet + 1
        /\ poll_count = gets
        /\ pc = "done" /\ ~ENABLED PollGet
        /\ saved \in {0, 1}
        /\ saved = 1 => GoodPayload(status_result)
        /\ (GoodPayload(status_result) /\ ~Reported("unexpected_error")) => saved = 1

\* the spec's case, k = 3: three waiting polls, COMPLETED on the fourth, image saved
C1_Witness ==
    /\ script = "infu" /\ CompletedReached
    /\ notYet = 3 /\ gets = 4 /\ saved = 1 /\ pc = "done"

\* the poll that ended the loop was answered COMPLETED with an output object
CompletedWithOutput ==
    /\ script = "infu" /\ CompletedReached
    /\ status_result.hasOutput /\ status_result.output.isDict

\* C11, as stated: a COMPLETED poll whose output object contains an image
\* field has that image decoded and saved; without an image field no image is
\* saved, no exception is raised and the loop ends at that poll.
C11_SavesWheneverImageField ==
    CompletedWithOutput =>
        /\ pc = "done" /\ ~ENABLED PollGet
        /\ status_result.output.hasImage => saved = 1
        /\ ~status_result.output.hasImage =>
            saved = 0 /\ raised = NoException /\ ~Reported("unexpected_error")

\* C11, amended: on a COMPLETED poll with an output object the loop ends at
\* that poll and no exception leaves test_infiniteyou_api. Without an image
\* field nothing is saved and no exception is raised. With an image field and
\* a falsy success field the image is ignored: nothing is saved, the service's
\* error is reported, no exception is raised. With an image field and a truthy
\* success field the image is saved (once) when it decodes to an image and can
\* be written; when it does not decode, or cannot be written, nothing is saved
\* and the exception is caught and reported as an unexpected error.
C11_CompletedImageHandling ==
    CompletedWithOutput =>
        LET output == status_result.output IN
        /\ pc = "done" /\ ~ENABLED PollGet /\ gets = poll_count
        /\ raised = NoException
        /\ IF ~output.hasImage THEN
               /\ saved = 0 /\ ~Reported("image_saved")
               /\ ~Reported("unexpected_error")
               /\ Reported("no_image") \/ Reported("api_error")
           ELSE IF ~output.success THEN
               /\ saved = 0 /\ ~Reported("image_saved")
               /\ ~Reported("unexpected_error")
               /\ Reported("api_error")
           ELSE IF output.image \notin ImagesThatDecode THEN
               /\ saved = 0 /\ ~Reported("image_saved")
               /\ Reported("unexpected_error")
           ELSE
               \/ /\ saved = 1 /\ Reported("image_saved")
                  /\ Reported("unexpected_error") <=> ~output.metadataOk
               \/ saved = 0 /\ ~Reported("image_saved") /\ Reported("unexpected_error")

\* a COMPLETED poll whose output has success and the data URL of an image: the
\* prefix was stripped, the image decoded and saved
C11_Witness ==
    /\ CompletedWithOutput /\ pc = "done"
    /\ status_result.output.success /\ status_result.output.hasImage
    /\ status_result.output.image = image_to_base64(SampleImage)
    /\ saved = 1 /\ Reported("image_saved")

\* C2: the loop never issues more than max_polls status GETs and cannot get
\* stuck; when every poll was answered 200 with a non-terminal status, it
\* stops after exactly max_polls polls with the timeout report, no image saved
\* and no exception out of test_infiniteyou_api. The timeout report appears in
\* no other case.
C2_PollingBounded ==
    script = "infu" =>
        /\ gets <= max_polls /\ poll_count = gets
        /\ pc = "polling" => ENABLED InfuNext
        /\ notYet = max_polls =>
            /\ gets = max_polls
            /\ ~ENABLED PollGet
            /\ saved = 0 /\ raised = NoException
            /\ pc = "done" => TimeoutReported
        /\ TimeoutReported => (notYet = max_polls /\ pc = "done")

C2_Witness ==
    /\ script = "infu" /\ pc = "done" /\ TimeoutReported
    /\ notYet = max_polls /\ gets = max_polls /\ saved = 0 /\ raised = NoException

-----------------------------------------------------------------------------
(* Configuration *)

\* the variables each script requires
RequiredEnv(s) ==
    CASE s = "infu" -> InfuEnvNames
      [] s = "np" -> {"HUGGINGFACE_API_KEY", "HUGGINGFACE_ENDPOINT",
                      "NEW_PERSON_OUTPUT_IMAGE_PATH"}
      [] s = "sd" -> SdEnvNames
      [] s = "cf" -> CfEnvNames

\* C3: in each of the four scripts, when a required environment variable is
\* absent or empty, no HTTP request has been issued at any point of the run,
\* and the run never gets past its configuration checks.
C3_NoRequestWithoutConfig ==
    (pc # "exited" /\ \E n \in RequiredEnv(script) : Missing(env[n])) =>
        /\ posts + gets = 0
        /\ pc \in {"start", "done"}

\* the last check before the request fails: everything set but the prompt
C3_Witness ==
    /\ script = "infu" /\ pc = "done"
    /\ env["INFINITE_PERSON_PROMPT"] = ""
    /\ \A n \in InfuEnvNames \ {"INFINITE_PERSON_PROMPT"} : ~Missing(env[n])
    /\ posts + gets = 0
    /\ raised # NoException

-----------------------------------------------------------------------------
(* comparisons.csv *)

\* C4: with invocations one after the other from an absent file, the file is
\* absent until the first successful comparison and then holds the header
\* line followed by the rows of the successful comparisons in invocation
\* order: N + 1 lines after N successes, the header exactly once and first.
C4_HeaderOnceRowsInOrder ==
    script = "cf" =>
        /\ okRows = <<>> => csv = Absent
        /\ okRows # <<>> =>
            /\ csv = File(<<Header>> \o okRows)
            /\ Len(csv.lines) = Len(okRows) + 1
            /\ Cardinality({i \in 1..Len(csv.lines) : csv.lines[i] = Header}) = 1

\* the third invocation has just appended the second row to the existing
\* file: two of three invocations succeeded, one failed and wrote nothing
C4_Witness ==
    /\ script = "cf" /\ pc = "done" /\ runs = 3 /\ file_exists
    /\ Reported("results_saved")
    /\ Len(okRows) = 2 /\ okRows[1] # okRows[2]
    /\ csv.lines = <<Header, okRows[1], okRows[2]>>

-----------------------------------------------------------------------------
(* FAILED jobs *)

IsHint(tag) == tag \in {"hint_storage", "hint_model", "hint_access"}
PrintedHints == SelectSeq(out, IsHint)

\* the error of the FAILED answer that ended the loop
FailedError == ErrorMsgOf(status_result)

\* the error strings a service may send, by the texts they contain
WithNoSpace == {m \in ErrorMsgs : Contains(m, NoSpaceLeft)}
WithModelNotFound == {m \in ErrorMsgs : Contains(m, ModelNotFound)}
WithAccess == {m \in ErrorMsgs : Contains(m, Code403) \/ Contains(Lower(m), AccessWord)}

\* C5: a FAILED status ends the loop at that poll, with no image saved and no
\* further GET; at most one hint is printed, and it is the one of the first
\* rule that matches the error string: "No space left on device" -> storage,
\* else "Model not found" -> model download, else "403" or "access" in any
\* letter case -> access request, else none.
C5_FailedHintByFirstRule ==
    (script = "infu" /\ FailedReached) =>
        /\ pc = "done" /\ ~ENABLED PollGet
        /\ saved = 0
        /\ gets = notYet + 1 /\ poll_count = gets
        /\ Len(PrintedHints) <= 1
        /\ LET m == FailedError
               space == m.text \in WithNoSpace
               model == m.text \in WithModelNotFound
               access == m.text \in WithAccess
           IN  IF ~m.isStr THEN PrintedHints = <<>>
               ELSE /\ space => PrintedHints = <<"hint_storage">>
                    /\ (~space /\ model) => PrintedHints = <<"hint_model">>
                    /\ (~space /\ ~model /\ access) => PrintedHints = <<"hint_access">>
                    /\ (~space /\ ~model /\ ~access) => PrintedHints = <<>>

\* an error that matches two rules gets the hint of the first
C5_Witness ==
    /\ script = "infu" /\ FailedReached /\ pc = "done"
    /\ status_result.error = ErrStr(MsgModelAndSpace)
    /\ PrintedHints = <<"hint_storage">>

-----------------------------------------------------------------------------
(* Status answers with another HTTP code *)

\* C6: once a status GET was answered with an HTTP code other than 200, the
\* loop is over at that poll: no further GET can be issued, no image is saved,
\* the timeout report of the while-else branch is not produced, and the
\* failed status check is reported, whatever the poll count.
C6_BadCodeEndsLoop ==
    (script = "infu" /\ status_code \notin {0, 200}) =>
        /\ pc = "done" /\ ~ENABLED PollGet
        /\ gets = notYet + 1 /\ poll_count = gets
        /\ saved = 0
        /\ ~TimeoutReported
        /\ Reported("status_check_failed")

\* the last poll the loop allows is answered with another code: no timeout report
C6_Witness ==
    /\ script = "infu" /\ pc = "done"
    /\ status_code = 202
    /\ poll_count = max_polls /\ in_progress_detected
    /\ ~TimeoutReported

-----------------------------------------------------------------------------
(* Text-to-image clients *)

T2iConfigOk ==
    \/ script = "sd" /\ SdConfigCheck(env) = "ok"
    \/ script = "np" /\ NpConfigCheck(env) = "ok"

\* C7: with a valid configuration, generate_image has been called once for
\* each prompt processed so far, in list order, whatever the earlier outcomes;
\* the loop can always go on; no exception leaves main; and when main has
\* returned every prompt of the list has been tried.
C7_EveryPromptTried ==
    (script \in {"sd", "np"} /\ T2iConfigOk /\ pc # "start") =>
        /\ raised = NoException
        /\ genCalls = SubSeq(Prompts, 1, idx)
        /\ posts = idx /\ nErrors <= idx
        /\ pc = "loop" => ENABLED T2iNext
        /\ pc = "done" => (genCalls = Prompts /\ Reported("done"))

\* the batch client returned after nine failed prompts and a tenth that was saved
C7_Witness ==
    /\ script = "sd" /\ pc = "done"
    /\ genCalls = SdPrompts
    /\ nErrors = Len(SdPrompts) - 1
    /\ written.kind = "bytes"

\* the data URL of each raw image of the stub
DataUrls == [B \in ByteSeqs |-> DataUrl(B)]

\* the endpoint answered 200 with the data URL of B, as a JSON string or as
\* the image field of a JSON object
AnsweredDataUrlOf(B) ==
    /\ response.exc = "none" /\ response.code = 200
    /\ response.kind \in {"string", "dict_image"}
    /\ response.text = DataUrls[B]

\* C8: when the endpoint answers with the data URL of the bytes B,
\* generate_image returns exactly B, and the file main wrote for that prompt
\* (if it could open it) contains exactly B.
C8_DataUrlRoundTrip ==
    script \in {"sd", "np"} =>
        \A B \in ByteSeqs :
            AnsweredDataUrlOf(B) =>
                /\ image_bytes = Bytes(B)
                /\ written \in {Nothing, Bytes(B)}

\* a two-byte image (one "=" of padding) came back as a JSON string and was written
C8_Witness ==
    /\ script = "np" /\ pc = "done"
    /\ response.kind = "string"
    /\ AnsweredDataUrlOf(<<202, 77>>)
    /\ written = Bytes(<<202, 77>>)

-----------------------------------------------------------------------------
(* Face detection order *)

\* C9: when the comparison runs on two images in neither of which a face is
\* detected, the error raised names the first image path, detect_face has run
\* on the first image only, and no scoring step has run.
C9_FirstImageReported ==
    (/\ script = "cf" /\ pc # "start"
     /\ CfConfigCheck(env, fs) = NoException
     /\ fs[env["DEFAULT_PERSON_FACE_IMAGE"]] = "noface"
     /\ fs[env["INFINITE_PERSON_FACE_IMAGE"]] = "noface") =>
        /\ pc = "done"
        /\ raised = Exception("ValueError",
                              "Error comparing faces: No face detected in image: ",
                              env["DEFAULT_PERSON_FACE_IMAGE"])
        /\ detectCalls = <<env["DEFAULT_PERSON_FACE_IMAGE"]>>
        /\ scoreSteps = 0 /\ similarity = ""

\* two different images without a face: the error names a.jpg, the first
C9_Witness ==
    /\ script = "cf" /\ pc = "done"
    /\ env["DEFAULT_PERSON_FACE_IMAGE"] = "a.jpg"
    /\ env["INFINITE_PERSON_FACE_IMAGE"] = "b.jpg"
    /\ fs["a.jpg"] = "noface" /\ fs["b.jpg"] = "noface"
    /\ raised.arg = "a.jpg" /\ detectCalls = <<"a.jpg">>

-----------------------------------------------------------------------------
(* Failure paths of the face-personalization client *)

\* the reports with which a run that saved no image ends
FailureReports ==
    {"err_url", "err_key", "err_input_not_found", "request_timed_out", "request_failed",
     "unexpected_error", "http_error", "unexpected_format", "api_error", "no_image",
     "no_output", "failed", "failed_generation", "status_check_failed", "timeout",
     "timeout_generation"}

\* the endpoint URL and API key are set and the input image path, the output
\* image path or the prompt is missing
PathOrPromptMissing ==
    /\ ~Missing(env["RUNPOD_INFU_URL"]) /\ ~Missing(env["RUNPOD_API_KEY"])
    /\ \E n \in {"INFINITE_INPUT_FACE_IMAGE_PATH", "INFINITE_OUTPUT_IMAGE_PATH",
                 "INFINITE_PERSON_PROMPT"} : Missing(env[n])

-----------------------------------------------------------------------------
(* When the face-personalization client writes the output image *)

\* an output object with a truthy success field and an image field
SuccessWithImage(body) ==
    /\ body.hasOutput /\ body.output.isDict
    /\ body.output.success /\ body.output.hasImage

\* the image was written in response to the immediate POST response
SavedFromPost ==
    /\ posts = 1 /\ gets = 0
    /\ result.status \notin WaitingStatuses
    /\ SuccessWithImage(result)

\* the image was written in response to a poll answered COMPLETED
SavedFromPoll ==
    /\ posts = 1 /\ gets > 0
    /\ result.status \in WaitingStatuses
    /\ status_code = 200 /\ status_result.status = "COMPLETED"
    /\ SuccessWithImage(status_result)

\* the run ended in one of the states that write nothing: FAILED, a poll
\* with a code other than 200, the timeout, success falsy, no output, an HTTP
\* error on the POST, a network exception, a check that failed before the POST
EndedWithoutImage ==
    \/ FailedReached
    \/ Reported("status_check_failed")
    \/ TimeoutReported
    \/ Reported("api_error")
    \/ Reported("no_image")
    \/ Reported("no_output")
    \/ Reported("unexpected_format")
    \/ Reported("http_error")
    \/ Reported("request_timed_out")
    \/ Reported("request_failed")
    \/ posts = 0

\* C13: in every run of test_infiniteyou_api the output image is written at
\* most once, only when the run is over, and only in response to the
\* immediate POST response without a queued or in-progress status, or to a
\* poll answered COMPLETED, whose output object has a truthy success field and
\* an image field; in every other terminal state (FAILED, non-200 poll,
\* timeout, success falsy, missing output, HTTP error on the POST, network
\* exception) no image is written.
C13_WrittenAtMostOnce ==
    script = "infu" =>
        /\ saved \in {0, 1}
        /\ saved = 1 <=> Reported("image_saved")
        /\ saved = 1 => (pc = "done" /\ (SavedFromPost \/ SavedFromPoll))
        /\ EndedWithoutImage => saved = 0
        /\ (pc = "done" /\ ~EndedWithoutImage /\ ~Reported("unexpected_error")) => saved = 1
        /\ pc # "done" => saved = 0

\* the immediate POST response carried no status and an output with success
\* and an image: the image was written once, with no poll
C13_Witness ==
    /\ script = "infu" /\ pc = "done"
    /\ SavedFromPost /\ result.status = "<none>"
    /\ saved = 1 /\ Reported("image_saved")

-----------------------------------------------------------------------------
(* Properties of two concurrent invocations of compare_faces.main *)

\* the header rows in comparisons.csv
HeaderRows == Cardinality({i \in 1..Len(csv.lines) : csv.lines[i] = Header})

\* an invocation has appended to the file
FirstAppended == pc = "done" /\ Reported("results_saved")
PeerAppended == peer.pc = "appended"

\* C12: with two invocations of main running concurrently against an absent
\* comparisons.csv, each invocation that appends after having evaluated
\* file_exists as false writes a header row, whatever the file has become in
\* between: the file holds one header row per such invocation, so it holds
\* two exactly when both evaluated file_exists before either opened the
\* file, and exactly one when both appended and one of them evaluated
\* file_exists after the other had opened the file.
C12_HeaderPerStaleCheck ==
    (script = "cf" /\ peer.pc # "none") =>
        /\ HeaderRows = (IF FirstAppended /\ ~file_exists THEN 1 ELSE 0)
                        + (IF PeerAppended /\ ~peer.file_exists THEN 1 ELSE 0)
        /\ Len(csv.lines) = HeaderRows + Len(okRows)
        /\ HeaderRows = 2 <=>
            (FirstAppended /\ PeerAppended /\ ~file_exists /\ ~peer.file_exists)
        /\ (FirstAppended /\ PeerAppended /\ (file_exists \/ peer.file_exists)) =>
            (HeaderRows = 1 /\ Len(csv.lines) = 3)
        /\ (pc \in {"opened", "done"} /\ peer.pc \in {"opened", "appended"}) =>
            (~file_exists \/ ~peer.file_exists)

\* both invocations evaluated file_exists as false and both appended: the file
\* has two header rows
C12_Witness ==
    /\ script = "cf" /\ FirstAppended /\ PeerAppended
    /\ ~file_exists /\ ~peer.file_exists
    /\ HeaderRows = 2 /\ Len(csv.lines) = 4
    /\ csv.lines[1] = Header /\ csv.lines[3] = Header


=============================================================================
